---- MODULE Spec2Model ----
(***************************************************************************)
(* The MNIST notebook neural-network-tensorflow.ipynb as a state machine:  *)
(* load -> preprocess (scale, shuffle, take/skip, batch) -> build ->       *)
(* compile -> fit (NUM_EPOCHS passes, one validation check per pass) ->    *)
(* evaluate -> print.  The tf.data operators the notebook calls (map,      *)
(* shuffle, take, skip, batch) are modelled by what they do to the stream  *)
(* of samples; the numeric training itself is a counter of parameter       *)
(* updates.                                                                *)
(***************************************************************************)
EXTENDS Integers, Sequences, FiniteSets, TLC

VARIABLES
    pc,                       \* the statement the script is at
    num_train_examples,       \* mnist_info.splits['train'].num_examples
    num_test_examples,        \* mnist_info.splits['test'].num_examples
    num_validation_samples,
    num_test_samples,
    validation,               \* (validation_inputs, validation_targets)
    train_iter,               \* the iterator model.fit holds over train_data
    epoch,                    \* the epoch model.fit is in (1-based), 0 before
    batch,                    \* the batch the last training step consumed
    steps,                    \* training steps taken in the current epoch
    updates,                  \* parameter updates applied to the model so far
    val_checks,               \* validation checks model.fit has run
    eval_queue,               \* batches of test_data model.evaluate has left
    eval_batch,               \* the batch the last evaluation step consumed
    eval_steps,               \* evaluation steps model.evaluate has run
    ran,                      \* how often each stage of the script has run
    sh,                       \* one iteration of dataset.shuffle, on its own
    sc                        \* one application of scale and of map(scale)

script == <<pc, num_train_examples, num_test_examples, num_validation_samples,
            num_test_samples, validation, train_iter, epoch, batch, steps,
            updates, val_checks, eval_queue, eval_batch, eval_steps, ran>>

vars == <<script, sh, sc>>

----------------------------------------------------------------------------
(* Sizes.  The notebook runs on MNIST (60000 / 10000 samples) with         *)
(* BUFFER_SIZE = 10000 and BATCH_SIZE = 100; the model keeps the names and *)
(* states every property in terms of them, for small values.               *)

MaxTrain == 11
MaxTest == 2
MaxSplitTrain == 30
MaxShuffleLen == 4
MaxMapLen == 2
BUFFER_SIZE == 2
BATCH_SIZE == 2
NUM_EPOCHS == 5

Min(a, b) == IF a <= b THEN a ELSE b

RECURSIVE Pow2(_)
Pow2(k) == IF k = 0 THEN 1 ELSE 2 * Pow2(k - 1)

Range(s) == {s[i] : i \in 1..Len(s)}

----------------------------------------------------------------------------
(* Single-precision numbers are records [m, e] standing for m / 2^e, with  *)
(* a 24-bit significand 2^23 <= m < 2^24 (zero is [0, 0]).                 *)

F32Zero == [m |-> 0, e |-> 0]

\* The least and the first-excluded 24-bit significand.
F32Hidden == Pow2(23)
F32Limit == Pow2(24)

\* Round to nearest, ties to even.
F32Round(q, r, d, k) ==
    LET up == IF 2 * r > d \/ (2 * r = d /\ q % 2 = 1) THEN q + 1 ELSE q
    IN  IF up = F32Limit THEN [m |-> F32Hidden, e |-> k - 1]
                         ELSE [m |-> up, e |-> k]

\* Long division: n * 2^k = q * d + r throughout; stops at 24 significant bits.
RECURSIVE F32Quot(_, _, _, _)
F32Quot(q, r, d, k) ==
    IF q >= F32Hidden
    THEN F32Round(q, r, d, k)
    ELSE F32Quot(2 * q + (IF 2 * r >= d THEN 1 ELSE 0),
                 IF 2 * r >= d THEN 2 * r - d ELSE 2 * r, d, k + 1)

\* tf.cast(image, tf.float32) is exact on 0..255; `image /= 255.` rounds to nearest.
F32Div(n, d) == IF n = 0 THEN F32Zero ELSE F32Quot(n \div d, n % d, d, 0)

\* The divisor taken as the number of grey levels instead of the largest one.
scale_by_256(image, label) == <<F32Div(image, 256), label>>

\* def scale(image, label)
scale(image, label) == <<F32Div(image, 255), label>>

----------------------------------------------------------------------------
(* Datasets are sequences of samples.  A sample carries the split and the  *)
(* position it has in that split, so that samples stay distinguishable.    *)

RawPixel(i) == ((i - 1) * 51) % 256
RawLabel(i) == i % 10

mnist_train(n) ==
    [i \in 1..n |-> [split |-> "train", idx |-> i,
                     image |-> RawPixel(i), label |-> RawLabel(i)]]

mnist_test(n) ==
    [i \in 1..n |-> [split |-> "test", idx |-> i,
                     image |-> RawPixel(i + 3), label |-> RawLabel(i + 3)]]

\* dataset.map(scale)
map_scale(ds) ==
    [i \in 1..Len(ds) |->
        [ds[i] EXCEPT !.image = scale(ds[i].image, ds[i].label)[1],
                      !.label = scale(ds[i].image, ds[i].label)[2]]]

\* The scaled splits, for every size tfds may report.
ScaledTrain == [n \in 0..(MaxTrain + MaxSplitTrain) |-> map_scale(mnist_train(n))]
ScaledTest == [n \in 0..(MaxTest + 1) |-> map_scale(mnist_test(n))]

scaled_train_and_validation_data(n) == ScaledTrain[n]

----------------------------------------------------------------------------
(* num_validation_samples = tf.cast(0.1 * num_examples, tf.int64): 0.1 is  *)
(* the binary fraction nearest one tenth (taken here at single precision,  *)
(* exact for the sizes of the model), the cast truncates.                  *)

Tenth == F32Div(1, 10)

cast_int64(x) == x.m \div Pow2(x.e)

validation_size(num_examples) ==
    cast_int64([m |-> Tenth.m * num_examples, e |-> Tenth.e])

----------------------------------------------------------------------------
(* dataset.shuffle(buffer_size): an iterator keeps a buffer of at most     *)
(* buffer_size samples read from the front of its input; each get_next     *)
(* refills the buffer from the input, then emits one buffered sample       *)
(* chosen at random.  A new iterator (each iter(dataset), so each epoch)   *)
(* starts with an empty buffer and draws its own random choices.           *)

NewShuffleIter == [buf |-> {}, nxt |-> 1]

\* An off-by-one in the buffer: one sample more than buffer_size.
ShuffleFillOneMore(it, src, buffer_size) ==
    LET k == Min(buffer_size + 1 - Cardinality(it.buf), Len(src) - it.nxt + 1)
    IN  [buf |-> it.buf \cup {src[j] : j \in it.nxt..(it.nxt + k - 1)},
         nxt |-> it.nxt + k]

ShuffleFill(it, src, buffer_size) ==
    LET k == Min(buffer_size - Cardinality(it.buf), Len(src) - it.nxt + 1)
    IN  [buf |-> it.buf \cup {src[j] : j \in it.nxt..(it.nxt + k - 1)},
         nxt |-> it.nxt + k]

\* No random choice: the buffer emptied oldest sample first.
ShuffleChoicesOldest(it, src, buffer_size) ==
    LET b == ShuffleFill(it, src, buffer_size).buf
    IN  {x \in b : \A y \in b : x.idx <= y.idx}

\* The samples the next get_next may emit.
ShuffleChoices(it, src, buffer_size) == ShuffleFill(it, src, buffer_size).buf

\* The outcomes <<sample, iterator after>> of one get_next; {} at the end.
ShuffleNext(it, src, buffer_size) ==
    LET f == ShuffleFill(it, src, buffer_size)
    IN  {<<x, [f EXCEPT !.buf = f.buf \ {x}]>> :
            x \in ShuffleChoices(it, src, buffer_size)}

\* How many samples the iterator has emitted so far.
Emitted(it) == (it.nxt - 1) - Cardinality(it.buf)

\* The outcomes <<samples, iterator after>> of up to n successive get_next.
RECURSIVE Pull(_, _, _, _)
Pull(it, src, buffer_size, n) ==
    LET g == ShuffleNext(it, src, buffer_size)
    IN  IF n = 0 \/ g = {}
        THEN {<<<< >>, it>>}
        ELSE UNION {{<<<<p[1]>> \o q[1], q[2]>> :
                        q \in Pull(p[2], src, buffer_size, n - 1)} : p \in g}

----------------------------------------------------------------------------
(* take, skip and batch.                                                   *)

\* dataset.take(count) over a stream of `length` samples: how many it yields.
take_count(length, count) == Min(length, count)

\* dataset.batch(size) over a stream of `length` samples: the batch sizes
\* (drop_remainder is left at its default, False).
batch_sizes(length, size) ==
    [i \in 1..((length + size - 1) \div size) |->
        IF i * size <= length THEN size ELSE length - (i - 1) * size]

\* dataset.batch(size) over a dataset that is not shuffled: its batches.
batches(ds, size) ==
    [i \in 1..Len(batch_sizes(Len(ds), size)) |->
        SubSeq(ds, (i - 1) * size + 1, Min(i * size, Len(ds)))]

\* The validation data batched like the training data.
validation_batch_size_train(v) == BATCH_SIZE

\* validation_data = shuffled.take(v).batch(v): the size of its batches.
validation_batch_size(v) == v

\* How many batches validation_data holds.
validation_num_batches(n, v) ==
    Len(batch_sizes(take_count(n, v), validation_batch_size(v)))

\* next(iter(validation_data)): the first batch of a fresh iteration.
validation_first_batch(n, v) ==
    {p[1] : p \in Pull(NewShuffleIter, scaled_train_and_validation_data(n),
                       BUFFER_SIZE,
                       Min(validation_batch_size(v), take_count(n, v)))}

\* The test data left unbatched: evaluate would take one step per sample.
test_batch_size_unbatched(t) == 1

\* test_data = mnist_test.map(scale).batch(num_test_samples)
test_batch_size(t) == t

test_data(n, t) == batches(ScaledTest[n], test_batch_size(t))

\* The dataset train_data draws from.
train_source(n) == scaled_train_and_validation_data(n)

\* iter(train_data): train_data = shuffled.skip(v).batch(BATCH_SIZE).
NewTrainIter == [sh |-> NewShuffleIter, skipped |-> FALSE]

\* The skip forgotten: train_data would be the whole shuffled split.
skip_count_none(v) == 0

\* skip(v) drops the first v samples its input emits, on the first get_next.
skip_count(v) == v

AfterSkip(tit, n, v) ==
    IF tit.skipped
    THEN {tit.sh}
    ELSE {p[2] : p \in Pull(tit.sh, train_source(n), BUFFER_SIZE, skip_count(v))}

\* The outcomes <<batch, iterator after>> of next(iterator) on train_data.
TrainNext(tit, n, v) ==
    UNION {{<<p[1], [sh |-> p[2], skipped |-> TRUE]>> :
                p \in Pull(s, train_source(n), BUFFER_SIZE, BATCH_SIZE)} :
            s \in AfterSkip(tit, n, v)}

\* The samples train_data has still to deliver in this iteration.
TrainRemaining(tit, n, v) ==
    LET left == (n - tit.sh.nxt + 1) + Cardinality(tit.sh.buf)
                  - (IF tit.skipped THEN 0 ELSE skip_count(v))
    IN  IF left > 0 THEN left ELSE 0

----------------------------------------------------------------------------
(* The script.                                                             *)

Stages == {"load", "preprocess", "build", "compile", "fit", "evaluate"}

\* The sizes tfds may report; the notebook needs num_validation_samples >= 1
\* and num_test_samples >= 1, batch() rejecting a size of 0.
TrainSizes == {n \in 1..MaxTrain : validation_size(n) >= 1}
TestSizes == 1..MaxTest

ShuffleOff == [src |-> << >>, buffer_size |-> 0, it |-> NewShuffleIter,
               out |-> << >>, done |-> FALSE]
ScaleOff == [image |-> 0, label |-> 0, out |-> << >>, ds |-> << >>,
             mapped |-> << >>, applied |-> FALSE, was_mapped |-> FALSE]

ScriptInit ==
    /\ pc = "load"
    /\ num_train_examples = 0
    /\ num_test_examples = 0
    /\ num_validation_samples = 0
    /\ num_test_samples = 0
    /\ validation = << >>
    /\ train_iter = NewTrainIter
    /\ epoch = 0
    /\ batch = << >>
    /\ steps = 0
    /\ updates = 0
    /\ val_checks = 0
    /\ eval_queue = << >>
    /\ eval_batch = << >>
    /\ eval_steps = 0
    /\ ran = [s \in Stages |-> 0]

Init == ScriptInit /\ sh = ShuffleOff /\ sc = ScaleOff

\* tfds.load(name='mnist', with_info=True, as_supervised=True)
Load(sizes) ==
    /\ pc = "load"
    /\ \E n \in sizes, t \in TestSizes :
        /\ num_train_examples' = n
        /\ num_test_examples' = t
    /\ ran' = [ran EXCEPT !["load"] = @ + 1]
    /\ pc' = "preprocess"
    /\ UNCHANGED <<sh, sc, num_validation_samples, num_test_samples,
                   validation, train_iter, epoch, batch, steps, updates,
                   val_checks, eval_queue, eval_batch, eval_steps>>

\* The sizes, the dataset definitions and next(iter(validation_data)).
Preprocess ==
    /\ pc = "preprocess"
    /\ num_validation_samples' = validation_size(num_train_examples)
    /\ num_test_samples' = num_test_examples
    /\ validation' \in validation_first_batch(num_train_examples,
                                              num_validation_samples')
    /\ ran' = [ran EXCEPT !["preprocess"] = @ + 1]
    /\ pc' = "build"
    /\ UNCHANGED <<sh, sc, num_train_examples, num_test_examples, train_iter,
                   epoch, batch, steps, updates, val_checks, eval_queue,
                   eval_batch, eval_steps>>

\* model = tf.keras.Sequential([...]): fresh parameters.
Build ==
    /\ pc = "build"
    /\ updates' = 0
    /\ ran' = [ran EXCEPT !["build"] = @ + 1]
    /\ pc' = "compile"
    /\ UNCHANGED <<sh, sc, num_train_examples, num_test_examples,
                   num_validation_samples, num_test_samples, validation,
                   train_iter, epoch, batch, steps, val_checks, eval_queue,
                   eval_batch, eval_steps>>

\* model.compile(optimizer='adam', loss=..., metrics=['accuracy'])
Compile ==
    /\ pc = "compile"
    /\ ran' = [ran EXCEPT !["compile"] = @ + 1]
    /\ pc' = "fit"
    /\ UNCHANGED <<sh, sc, num_train_examples, num_test_examples,
                   num_validation_samples, num_test_samples, validation,
                   train_iter, epoch, batch, steps, updates, val_checks,
                   eval_queue, eval_batch, eval_steps>>

\* model.fit(train_data, epochs=NUM_EPOCHS, validation_data=(...)) is entered.
Fit ==
    /\ pc = "fit"
    /\ epoch' = 0
    /\ val_checks' = 0
    /\ ran' = [ran EXCEPT !["fit"] = @ + 1]
    /\ pc' = "epoch"
    /\ UNCHANGED <<sh, sc, num_train_examples, num_test_examples,
                   num_validation_samples, num_test_samples, validation,
                   train_iter, batch, steps, updates, eval_queue, eval_batch,
                   eval_steps>>

\* An off-by-one in the epoch loop: one pass too many.
fit_finished_late(e) == e >= NUM_EPOCHS + 1

\* Whether model.fit has run all its epochs.
fit_finished(e) == e >= NUM_EPOCHS

\* An epoch begins: model.fit iterates train_data anew.
BeginEpoch ==
    /\ pc = "epoch"
    /\ ~fit_finished(epoch)
    /\ epoch' = epoch + 1
    /\ train_iter' = NewTrainIter
    /\ steps' = 0
    /\ batch' = << >>
    /\ pc' = "train"
    /\ UNCHANGED <<sh, sc, num_train_examples, num_test_examples,
                   num_validation_samples, num_test_samples, validation,
                   updates, val_checks, eval_queue, eval_batch, eval_steps,
                   ran>>

\* One training step: the next batch of train_data, one parameter update.
TrainStep ==
    /\ pc = "train"
    /\ TrainRemaining(train_iter, num_train_examples, num_validation_samples) > 0
    /\ \E o \in TrainNext(train_iter, num_train_examples, num_validation_samples) :
        /\ batch' = o[1]
        /\ train_iter' = o[2]
    /\ steps' = steps + 1
    /\ updates' = updates + 1
    /\ UNCHANGED <<sh, sc, pc, num_train_examples, num_test_examples,
                   num_validation_samples, num_test_samples, validation,
                   epoch, val_checks, eval_queue, eval_batch, eval_steps, ran>>

\* Whether the epoch's validation check is due.
validation_due(remaining) == remaining = 0

\* The epoch loop left after its first pass: the test evaluation would run
\* on a model trained for one epoch.
ValidateThenEvaluate ==
    /\ pc = "train"
    /\ validation_due(TrainRemaining(train_iter, num_train_examples,
                                     num_validation_samples))
    /\ val_checks' = val_checks + 1
    /\ pc' = "evaluate"
    /\ UNCHANGED <<sh, sc, num_train_examples, num_test_examples,
                   num_validation_samples, num_test_samples, validation,
                   train_iter, epoch, batch, steps, updates, eval_queue,
                   eval_batch, eval_steps, ran>>

\* The end of an epoch: the validation check on (validation_inputs,
\* validation_targets); model.fit returns after the last one.
Validate ==
    /\ pc = "train"
    /\ validation_due(TrainRemaining(train_iter, num_train_examples,
                                     num_validation_samples))
    /\ val_checks' = val_checks + 1
    /\ pc' = IF fit_finished(epoch) THEN "evaluate" ELSE "epoch"
    /\ UNCHANGED <<sh, sc, num_train_examples, num_test_examples,
                   num_validation_samples, num_test_samples, validation,
                   train_iter, epoch, batch, steps, updates, eval_queue,
                   eval_batch, eval_steps, ran>>

\* model.evaluate(test_data) is entered: it iterates test_data.
Evaluate ==
    /\ pc = "evaluate"
    /\ eval_queue' = test_data(num_test_examples, num_test_samples)
    /\ eval_steps' = 0
    /\ ran' = [ran EXCEPT !["evaluate"] = @ + 1]
    /\ pc' = "eval_step"
    /\ UNCHANGED <<sh, sc, num_train_examples, num_test_examples,
                   num_validation_samples, num_test_samples, validation,
                   train_iter, epoch, batch, steps, updates, val_checks,
                   eval_batch>>

\* One evaluation step: the next batch of test_data, no parameter update.
EvalStep ==
    /\ pc = "eval_step"
    /\ eval_queue # << >>
    /\ eval_batch' = Head(eval_queue)
    /\ eval_queue' = Tail(eval_queue)
    /\ eval_steps' = eval_steps + 1
    /\ UNCHANGED <<sh, sc, pc, num_train_examples, num_test_examples,
                   num_validation_samples, num_test_samples, validation,
                   train_iter, epoch, batch, steps, updates, val_checks, ran>>

\* print('Perte lors du test : ...'): the script ends.
PrintResult ==
    /\ pc = "eval_step"
    /\ eval_queue = << >>
    /\ pc' = "done"
    /\ UNCHANGED <<sh, sc, num_train_examples, num_test_examples,
                   num_validation_samples, num_test_samples, validation,
                   train_iter, epoch, batch, steps, updates, val_checks,
                   eval_queue, eval_batch, eval_steps, ran>>

Next ==
    \/ Load(TrainSizes)
    \/ Preprocess
    \/ Build
    \/ Compile
    \/ Fit
    \/ BeginEpoch
    \/ TrainStep
    \/ Validate
    \/ Evaluate
    \/ EvalStep
    \/ PrintResult

Spec == Init /\ [][Next]_vars

----------------------------------------------------------------------------
(* The split alone (load and preprocess), on larger train splits, so that  *)
(* the validation batch holds several samples.                             *)

SplitTrainSizes == {n \in 1..MaxSplitTrain : validation_size(n) >= 1}

SplitNext ==
    \/ Load(SplitTrainSizes)
    \/ Preprocess

SplitSpec == Init /\ [][SplitNext]_vars

----------------------------------------------------------------------------
(* One iteration of dataset.shuffle(buffer_size) over a dataset, for every *)
(* buffer size from 1 to beyond the dataset's length.                      *)

ShuffleInit ==
    /\ ScriptInit
    /\ sc = ScaleOff
    /\ \E n \in 0..MaxShuffleLen, b \in 1..(MaxShuffleLen + 1) :
        sh = [src |-> ScaledTrain[n], buffer_size |-> b,
              it |-> NewShuffleIter, out |-> << >>, done |-> FALSE]

\* next(iterator): one more sample.
ShuffleGetNext ==
    /\ ~sh.done
    /\ \E o \in ShuffleNext(sh.it, sh.src, sh.buffer_size) :
        sh' = [sh EXCEPT !.it = o[2], !.out = Append(@, o[1])]
    /\ UNCHANGED <<script, sc>>

\* next(iterator) at the end of the sequence.
ShuffleEnd ==
    /\ ~sh.done
    /\ ShuffleNext(sh.it, sh.src, sh.buffer_size) = {}
    /\ sh' = [sh EXCEPT !.done = TRUE]
    /\ UNCHANGED <<script, sc>>

ShuffleSpecNext ==
    \/ ShuffleGetNext
    \/ ShuffleEnd

ShuffleSpec == ShuffleInit /\ [][ShuffleSpecNext]_vars

\* Every order one whole iteration of shuffle(buffer_size) can emit src in.
ShuffleOutputs(src, buffer_size) ==
    {p[1] : p \in Pull(NewShuffleIter, src, buffer_size, Len(src))}

----------------------------------------------------------------------------
(* scale on one pixel and label, and map(scale) on a dataset.              *)

Pixels == 0..255
Labels == 0..9

DatasetsToMap ==
    {mnist_train(n) : n \in 0..MaxMapLen} \cup {mnist_test(n) : n \in 0..MaxMapLen}

ScaleInit ==
    /\ ScriptInit
    /\ sh = ShuffleOff
    /\ \E p \in Pixels, l \in Labels, ds \in DatasetsToMap :
        sc = [ScaleOff EXCEPT !.image = p, !.label = l, !.ds = ds]

ApplyScale ==
    /\ ~sc.applied
    /\ sc' = [sc EXCEPT !.out = scale(sc.image, sc.label), !.applied = TRUE]
    /\ UNCHANGED <<script, sh>>

ApplyMap ==
    /\ ~sc.was_mapped
    /\ sc' = [sc EXCEPT !.mapped = map_scale(sc.ds), !.was_mapped = TRUE]
    /\ UNCHANGED <<script, sh>>

ScaleSpecNext ==
    \/ ApplyScale
    \/ ApplyMap

ScaleSpec == ScaleInit /\ [][ScaleSpecNext]_vars

----------------------------------------------------------------------------
(* Properties of the script (under Spec).                                  *)

\* The samples an iterator over the shuffled data has emitted so far.
EmittedSet(it, src) == {src[j] : j \in 1..(it.nxt - 1)} \ it.buf

\* The samples one pass over train_data delivers, and in how many batches.
TrainCount == num_train_examples - num_validation_samples
BatchesPerEpoch == (TrainCount + BATCH_SIZE - 1) \div BATCH_SIZE
Remaining == TrainRemaining(train_iter, num_train_examples, num_validation_samples)

\* C1: the train and validation partitions are disjoint: no sample of the
\* validation batch is ever in a training batch, in any epoch of model.fit.
C1_TrainValidationDisjoint == Range(batch) \cap Range(validation) = {}

\* C2: the stages load, preprocess, build, compile, fit, evaluate each run at
\* most once and in that order (all exactly once when the script ends);
\* the evaluation starts only when all NUM_EPOCHS epochs are complete, and
\* from then on the count of parameter updates stays at its final value.
C2_EvaluateOnceAfterTraining ==
    /\ \A s \in Stages : ran[s] <= 1
    /\ ran["preprocess"] <= ran["load"]
    /\ ran["build"] <= ran["preprocess"]
    /\ ran["compile"] <= ran["build"]
    /\ ran["fit"] <= ran["compile"]
    /\ ran["evaluate"] <= ran["fit"]
    /\ ran["evaluate"] = 1 =>
          /\ epoch = NUM_EPOCHS
          /\ val_checks = NUM_EPOCHS
          /\ Remaining = 0
          /\ updates = NUM_EPOCHS * BatchesPerEpoch
    /\ eval_steps > 0 => ran["evaluate"] = 1
    /\ pc = "done" => (\A s \in Stages : ran[s] = 1) /\ eval_steps >= 1

C2_Witness == pc = "done" /\ ran["evaluate"] = 1 /\ updates > NUM_EPOCHS

\* C3: model.fit runs exactly NUM_EPOCHS passes; during pass k exactly k - 1
\* validation checks have run, the k-th runs when the pass has delivered its
\* last batch, and after the NUM_EPOCHS-th check training has stopped.
C3_EpochsAndValidation ==
    /\ epoch \in 0..NUM_EPOCHS
    /\ val_checks \in 0..NUM_EPOCHS
    /\ pc = "train" => epoch >= 1 /\ val_checks = epoch - 1
                       /\ updates = (epoch - 1) * BatchesPerEpoch + steps
    /\ pc = "epoch" => val_checks = epoch /\ epoch < NUM_EPOCHS
    /\ (epoch >= 1 /\ val_checks = epoch) =>
          /\ Remaining = 0
          /\ steps = BatchesPerEpoch
          /\ updates = epoch * BatchesPerEpoch
    /\ pc \in {"evaluate", "eval_step", "done"} =>
          epoch = NUM_EPOCHS /\ val_checks = NUM_EPOCHS

C3_Witness ==
    pc = "evaluate" /\ epoch = NUM_EPOCHS /\ val_checks = NUM_EPOCHS /\ steps > 1

\* C4: only samples of the train split reach a training step or a validation
\* check; test_data is one batch holding all num_test_samples test samples in
\* their source order, and model.evaluate takes exactly one step.
C4_TestHeldOut ==
    /\ \A s \in Range(batch) \cup Range(validation) \cup train_iter.sh.buf :
          s.split = "train"
    /\ (pc = "eval_step" /\ eval_steps = 0) => Len(eval_queue) = 1
    /\ eval_steps >= 1 =>
          /\ eval_steps = 1
          /\ eval_queue = << >>
          /\ Len(eval_batch) = num_test_samples
          /\ Len(eval_batch) = num_test_examples
          /\ \A i \in 1..Len(eval_batch) :
                eval_batch[i].split = "test" /\ eval_batch[i].idx = i
    /\ pc = "done" => eval_steps = 1

C4_Witness == pc = "done" /\ eval_steps = 1 /\ Len(eval_batch) >= 2

C5_BatchShape ==
    /\ steps >= 1 =>
          /\ Len(batch) \in 1..BATCH_SIZE
          /\ Len(batch) < BATCH_SIZE =>
                Remaining = 0 /\ Len(batch) = TrainCount % BATCH_SIZE
          /\ TrainCount % BATCH_SIZE = 0 => Len(batch) = BATCH_SIZE
          /\ Cardinality(Range(batch)) = Len(batch)
          /\ Emitted(train_iter.sh) - num_validation_samples
                = (steps - 1) * BATCH_SIZE + Len(batch)
    /\ (epoch >= 1 /\ Remaining = 0) =>
          /\ steps = BatchesPerEpoch
          /\ (steps - 1) * BATCH_SIZE + Len(batch) = TrainCount
          /\ TrainCount % BATCH_SIZE = 0 => steps * BATCH_SIZE = TrainCount

C5_StepTakesFreshSamples ==
    steps' = steps + 1 =>
        LET src == train_source(num_train_examples)
            before == EmittedSet(train_iter.sh, src)
            after == EmittedSet(train_iter'.sh, src)
        IN  /\ Range(batch') \cap before = {}
            /\ Range(batch') \subseteq after
            /\ before \subseteq after
            /\ Cardinality(after) = Cardinality(before) + Len(batch')
                   + (IF steps = 0 THEN num_validation_samples ELSE 0)

----------------------------------------------------------------------------
(* Properties of the split (under SplitSpec).                              *)

\* C6: num_validation_samples is the integer part of a tenth of the train
\* split; validation_data holds exactly one batch, and the batch taken from
\* it holds exactly num_validation_samples distinct samples of the scaled
\* train split.
C6_ValidationIsTenth ==
    pc = "build" =>
        /\ 10 * num_validation_samples <= num_train_examples
        /\ num_train_examples < 10 * (num_validation_samples + 1)
        /\ validation_num_batches(num_train_examples, num_validation_samples) = 1
        /\ Len(validation) = num_validation_samples
        /\ Cardinality(Range(validation)) = num_validation_samples
        /\ \A s \in Range(validation) :
              /\ s.split = "train"
              /\ s.idx \in 1..num_train_examples
              /\ s = map_scale(mnist_train(num_train_examples))[s.idx]

C6_Witness ==
    /\ pc = "build" /\ num_validation_samples = 3
    /\ validation[1].idx > validation[2].idx

\* C10: the k-th sample of the validation batch comes from the first
\* k + BUFFER_SIZE - 1 positions of the train split, so every validation
\* sample comes from the first num_validation_samples + BUFFER_SIZE - 1.
C10_ValidationFromFront ==
    \A k \in 1..Len(validation) :
        /\ validation[k].idx <= k + BUFFER_SIZE - 1
        /\ validation[k].idx <= num_validation_samples + BUFFER_SIZE - 1

C10_Witness ==
    /\ pc = "build" /\ num_validation_samples >= 2
    /\ num_validation_samples + BUFFER_SIZE - 1 < num_train_examples
    /\ \E k \in 1..Len(validation) :
          validation[k].idx = num_validation_samples + BUFFER_SIZE - 1

----------------------------------------------------------------------------
(* Properties of scale (under ScaleSpec).                                  *)

F32One == [m |-> F32Hidden, e |-> 23]

\* x <= 1, for a single-precision number x >= 0.
F32LeOne(x) == x.m = 0 \/ x.e >= 24 \/ x.m <= Pow2(x.e)

\* p * 2^e - 255 * m for x = m / 2^e: 255 * 2^e times the distance from x to
\* p / 255, computed on the halves of m to stay within the integers at hand.
ScaleError(p, x) ==
    IF x.m = 0 THEN p
    ELSE IF x.e < 12 THEN 255 * Pow2(12)
    ELSE Pow2(12) * (p * Pow2(x.e - 12) - 255 * (x.m \div Pow2(12)))
           - 255 * (x.m % Pow2(12))

Abs(n) == IF n < 0 THEN -n ELSE n

\* C7: scale returns, for a pixel p in 0..255, the single-precision number
\* nearest p / 255, which lies in [0, 1], is 0 exactly for p = 0 and 1 exactly
\* for p = 255, and returns the label unchanged; map(scale) keeps the number
\* and the order of the samples of a dataset.
C7_ScaleIntoUnitRange ==
    /\ sc.applied =>
          LET x == sc.out[1]
          IN  /\ Len(sc.out) = 2
              /\ sc.out[2] = sc.label
              /\ x.m >= 0
              /\ F32LeOne(x)
              /\ x = F32Zero \/ x.m \in F32Hidden..(F32Limit - 1)
              /\ 2 * Abs(ScaleError(sc.image, x)) <= 255
              /\ (sc.image = 0) <=> (x = F32Zero)
              /\ (sc.image = 255) <=> (x = F32One)
    /\ sc.was_mapped =>
          /\ Len(sc.mapped) = Len(sc.ds)
          /\ \A i \in 1..Len(sc.ds) :
                /\ sc.mapped[i].idx = sc.ds[i].idx
                /\ sc.mapped[i].split = sc.ds[i].split
                /\ sc.mapped[i].label = sc.ds[i].label
                /\ 2 * Abs(ScaleError(sc.ds[i].image, sc.mapped[i].image)) <= 255

C7_Witness ==
    /\ sc.applied /\ sc.image = 255 /\ sc.out[1] = F32One /\ sc.label = 7
    /\ sc.was_mapped /\ Len(sc.mapped) = MaxMapLen

----------------------------------------------------------------------------
(* Properties of shuffle (under ShuffleSpec).                              *)

\* Every order of the samples of src.
AllOrders(src) ==
    {s \in [1..Len(src) -> Range(src)] :
        \A i, j \in 1..Len(src) : i # j => s[i] # s[j]}

\* C9: for every buffer size >= 1 an iteration of shuffle emits each sample of
\* its input exactly once; with buffer size 1 it emits them in input order;
\* with a buffer size of at least the input's length it can emit them in any
\* order.
C9_ShuffleIsPermutation ==
    /\ Cardinality(Range(sh.out)) = Len(sh.out)
    /\ \A i \in 1..Len(sh.src) :
          \/ sh.src[i] \in Range(sh.out) /\ sh.src[i] \notin sh.it.buf /\ i < sh.it.nxt
          \/ sh.src[i] \notin Range(sh.out) /\ sh.src[i] \in sh.it.buf /\ i < sh.it.nxt
          \/ sh.src[i] \notin Range(sh.out) /\ sh.src[i] \notin sh.it.buf /\ i >= sh.it.nxt
    /\ Range(sh.out) \subseteq Range(sh.src)
    /\ sh.done =>
          /\ Len(sh.out) = Len(sh.src)
          /\ Range(sh.out) = Range(sh.src)
          /\ sh.out \in ShuffleOutputs(sh.src, sh.buffer_size)
    /\ sh.buffer_size = 1 => sh.out = SubSeq(sh.src, 1, Len(sh.out))
    /\ sh.buffer_size >= Len(sh.src) =>
          ShuffleOutputs(sh.src, sh.buffer_size) = AllOrders(sh.src)

C9_Witness ==
    /\ sh.done /\ Len(sh.src) >= 3 /\ sh.buffer_size >= Len(sh.src)
    /\ sh.out[1].idx = Len(sh.src) /\ sh.out[Len(sh.src)].idx = 1

====
